---------------------------- MODULE Spec2Model ----------------------------
(***************************************************************************)
(* A model of the thread-me-to worker (src/src/index.ts): the story        *)
(* customization pipeline (pronoun rewriter, markdown renderer, class      *)
(* injection, banner) and the link shortener over the LINKS key-value      *)
(* store.  Texts are strings; a character is a string of length one.       *)
(***************************************************************************)
EXTENDS Naturals, Sequences, FiniteSets, TLC

(***************************************************************************)
(* JavaScript string primitives                                            *)
(***************************************************************************)
Char(s, i) == SubSeq(s, i, i)

LowerAlpha == "abcdefghijklmnopqrstuvwxyz"
UpperAlpha == "ABCDEFGHIJKLMNOPQRSTUVWXYZ"
DigitChars == "0123456789"

CharsOf(s) == {Char(s, i) : i \in 1..Len(s)}

LowerSet == CharsOf(LowerAlpha)
UpperSet == CharsOf(UpperAlpha)

\* \w of a JavaScript regular expression without the u flag: [A-Za-z0-9_]
WordChars == LowerSet \cup UpperSet \cup CharsOf(DigitChars) \cup {"_"}

\* \s restricted to the white space that occurs in the modelled texts
SpaceChars == {" ", "\n", "\t"}

IsWordChar(c) == c \in WordChars

UpperOfChar(c) ==
    IF c \in LowerSet
    THEN Char(UpperAlpha, CHOOSE i \in 1..26 : Char(LowerAlpha, i) = c)
    ELSE c

LowerOfChar(c) ==
    IF c \in UpperSet
    THEN Char(LowerAlpha, CHOOSE i \in 1..26 : Char(UpperAlpha, i) = c)
    ELSE c

RECURSIVE toUpperCase(_)
toUpperCase(s) ==
    IF Len(s) = 0 THEN ""
    ELSE UpperOfChar(Char(s, 1)) \o toUpperCase(SubSeq(s, 2, Len(s)))

RECURSIVE toLowerCase(_)
toLowerCase(s) ==
    IF Len(s) = 0 THEN ""
    ELSE LowerOfChar(Char(s, 1)) \o toLowerCase(SubSeq(s, 2, Len(s)))

\* s.startsWith(p)
startsWith(s, p) == Len(s) >= Len(p) /\ SubSeq(s, 1, Len(p)) = p

\* the literal p occurs in s at position i
OccursAt(s, p, i) == i + Len(p) - 1 <= Len(s) /\ SubSeq(s, i, i + Len(p) - 1) = p

Contains(s, p) == \E i \in 1..(Len(s) + 1) : OccursAt(s, p, i)

Min(S) == CHOOSE x \in S : \A y \in S : x <= y

Max(S) == CHOOSE x \in S : \A y \in S : y <= x

\* the first of the positions at which a pattern matches, 0 when there is
\* none: the scan of a regular expression, left to right
First(hits) == IF hits = {} THEN 0 ELSE Min(hits)

\* s.replace(/p/g, r) for a pattern p that is a literal
RECURSIVE ReplaceFrom(_, _, _, _)
ReplaceFrom(s, p, r, i) ==
    LET j == First({n \in i..Len(s) : OccursAt(s, p, n)})
    IN  IF j = 0 THEN SubSeq(s, i, Len(s))
        ELSE SubSeq(s, i, j - 1) \o r \o ReplaceFrom(s, p, r, j + Len(p))

ReplaceAll(s, p, r) == ReplaceFrom(s, p, r, 1)

(***************************************************************************)
(* The pronoun table                                                       *)
(***************************************************************************)
PRONOUNS ==
    [she  |-> [subject |-> "she", object |-> "her", possessiveAdj |-> "her",
               possessive |-> "hers", reflexive |-> "herself"],
     he   |-> [subject |-> "he", object |-> "him", possessiveAdj |-> "his",
               possessive |-> "his", reflexive |-> "himself"],
     they |-> [subject |-> "they", object |-> "them", possessiveAdj |-> "their",
               possessive |-> "theirs", reflexive |-> "themselves"]]

PronounKey == DOMAIN PRONOUNS

\* PRONOUNS and STORY_METADATA are object literals: a property read that
\* finds no own property goes on to Object.prototype, whose members
\* (functions and objects) are truthy and have none of the record's fields.
ObjectPrototypeKeys ==
    {"constructor", "toString", "valueOf", "hasOwnProperty", "__proto__"}

\* the truthiness of PRONOUNS[key]
PronounLookupTruthy(key) == key \in PronounKey \/ key \in ObjectPrototypeKeys


\* newPronouns = PRONOUNS[pronounKey] || PRONOUNS['he'], read at one field:
\* a member of Object.prototype is truthy and its field reads give undefined
NewForm(pronounKey, field) ==
    IF pronounKey \in PronounKey
    THEN [defined |-> TRUE, str |-> PRONOUNS[pronounKey][field]]
    ELSE IF pronounKey \in ObjectPrototypeKeys
    THEN [defined |-> FALSE, str |-> "undefined"]
    ELSE [defined |-> TRUE, str |-> PRONOUNS["he"][field]]

(***************************************************************************)
(* rewritePronouns                                                         *)
(***************************************************************************)
capitalize(str) == toUpperCase(Char(str, 1)) \o SubSeq(str, 2, Len(str))

IsWordAt(s, k) == k >= 1 /\ k <= Len(s) /\ IsWordChar(Char(s, k))

\* \b holds between the characters k-1 and k
WordBoundary(s, k) == IsWordAt(s, k - 1) # IsWordAt(s, k)

\* a faulty variant: the pattern without its \b anchors
WordMatchAt_Unanchored(s, w, ci, i) ==
    /\ i + Len(w) - 1 <= Len(s)
    /\ LET m == SubSeq(s, i, i + Len(w) - 1)
       IN  IF ci THEN toLowerCase(m) = toLowerCase(w) ELSE m = w

\* /\bW\b/ matches at position i; ci is the i flag
WordMatchAt(s, w, ci, i) ==
    /\ i + Len(w) - 1 <= Len(s)
    /\ LET m == SubSeq(s, i, i + Len(w) - 1)
       IN  IF ci THEN toLowerCase(m) = toLowerCase(w) ELSE m = w
    /\ WordBoundary(s, i)
    /\ WordBoundary(s, i + Len(w))

\* a faulty variant: the callback returns the target form whatever the match's case
Replacement_Lowercase(rule, m) == [threw |-> FALSE, str |-> rule.form.str]

\* the replacement of one match: a literal string (the two name rules), or
\* the callback (match) => match[0] === match[0].toUpperCase()
\*                              ? capitalize(form) : form
\* where capitalize(undefined) throws a TypeError and a callback that returns
\* undefined inserts the text "undefined"
Replacement(rule, m) ==
    IF rule.literal THEN [threw |-> FALSE, str |-> rule.form.str]
    ELSE IF Char(m, 1) = toUpperCase(Char(m, 1))
    THEN IF rule.form.defined
         THEN [threw |-> FALSE, str |-> capitalize(rule.form.str)]
         ELSE [threw |-> TRUE, str |-> ""]
    ELSE [threw |-> FALSE, str |-> rule.form.str]

\* result.replace(pattern, replacement) with the g flag, from position i on
RECURSIVE ReplaceWordFrom(_, _, _)
ReplaceWordFrom(s, rule, i) ==
    LET j == First({n \in i..Len(s) : WordMatchAt(s, rule.word, rule.ci, n)})
    IN  IF j = 0 THEN [threw |-> FALSE, str |-> SubSeq(s, i, Len(s))]
        ELSE LET r    == Replacement(rule, SubSeq(s, j, j + Len(rule.word) - 1))
                 rest == ReplaceWordFrom(s, rule, j + Len(rule.word))
             IN  [threw |-> r.threw \/ rest.threw,
                  str   |-> SubSeq(s, i, j - 1) \o r.str \o rest.str]

ApplyRule(acc, rule) ==
    IF acc.threw THEN acc ELSE ReplaceWordFrom(acc.str, rule, 1)

Lit(word, str) ==
    [word |-> word, ci |-> FALSE, literal |-> TRUE,
     form |-> [defined |-> TRUE, str |-> str]]

Fn(word, form) == [word |-> word, ci |-> TRUE, literal |-> FALSE, form |-> form]

\* a faulty variant: the two name rules come after the five pronoun rules
replacements_NameLast(originalName, targetName, pronounKey) ==
    << Fn(PRONOUNS["he"].subject, NewForm(pronounKey, "subject")),
       Fn(PRONOUNS["he"].object, NewForm(pronounKey, "object")),
       Fn(PRONOUNS["he"].possessiveAdj, NewForm(pronounKey, "possessiveAdj")),
       Fn(PRONOUNS["he"].possessive, NewForm(pronounKey, "possessive")),
       Fn(PRONOUNS["he"].reflexive, NewForm(pronounKey, "reflexive")),
       Lit(originalName, targetName),
       Lit(toLowerCase(originalName), toLowerCase(targetName)) >>

\* the replacements array, in the order of the source
replacements(originalName, targetName, pronounKey) ==
    << Lit(originalName, targetName),
       Lit(toLowerCase(originalName), toLowerCase(targetName)),
       Fn(PRONOUNS["he"].subject, NewForm(pronounKey, "subject")),
       Fn(PRONOUNS["he"].object, NewForm(pronounKey, "object")),
       Fn(PRONOUNS["he"].possessiveAdj, NewForm(pronounKey, "possessiveAdj")),
       Fn(PRONOUNS["he"].possessive, NewForm(pronounKey, "possessive")),
       Fn(PRONOUNS["he"].reflexive, NewForm(pronounKey, "reflexive")) >>

\* for (const [pattern, replacement] of replacements) result = result.replace(...)
RECURSIVE ApplyRules(_, _, _)
ApplyRules(acc, rules, k) ==
    IF k > Len(rules) THEN acc
    ELSE ApplyRules(ApplyRule(acc, rules[k]), rules, k + 1)

\* the value is [threw, str]: threw when the call ends in a TypeError
rewritePronouns(text, originalName, targetName, pronounKey) ==
    ApplyRules([threw |-> FALSE, str |-> text],
               replacements(originalName, targetName, pronounKey), 1)

(***************************************************************************)
(* addStoryClasses                                                         *)
(***************************************************************************)
addStoryClasses(html) ==
    LET r1 == ReplaceAll(html, "<h1>", "<h1 class=\"chapter-title\">")
        r2 == ReplaceAll(r1, "<h2>", "<h2 class=\"section-title\">")
        r3 == ReplaceAll(r2, "<h3>", "<h3 class=\"subsection-title\">")
        r4 == ReplaceAll(r3, "<p>", "<p class=\"story-text\">")
        r5 == ReplaceAll(r4, "<ul>", "<ul class=\"bullet-list\">")
        r6 == ReplaceAll(r5, "<ol>", "<ol class=\"numbered-list\">")
        r7 == ReplaceAll(r6, "<blockquote>", "<blockquote class=\"story-callout\">")
    IN  ReplaceAll(r7, "<img ", "<img class=\"story-image\" ")

(***************************************************************************)
(* markdownToHTMLManual                                                    *)
(***************************************************************************)
IsSpace(c) == c \in SpaceChars

\* s.split('\n')
RECURSIVE SplitLinesFrom(_, _)
SplitLinesFrom(s, i) ==
    LET j == First({n \in i..Len(s) : Char(s, n) = "\n"})
    IN  IF j = 0 THEN << SubSeq(s, i, Len(s)) >>
        ELSE << SubSeq(s, i, j - 1) >> \o SplitLinesFrom(s, j + 1)

SplitLines(s) == SplitLinesFrom(s, 1)

\* parts.join(sep)
RECURSIVE Join(_, _)
Join(parts, sep) ==
    IF Len(parts) = 0 THEN ""
    ELSE IF Len(parts) = 1 THEN parts[1]
    ELSE parts[1] \o sep \o Join(Tail(parts), sep)

\* s.trim()
trim(s) ==
    LET solid == {k \in 1..Len(s) : ~IsSpace(Char(s, k))}
    IN  IF solid = {} THEN "" ELSE SubSeq(s, Min(solid), Max(solid))

\* one header rule, .replace(/^PREFIX(.*$)/gm, OPEN$1CLOSE): with the m flag
\* ^ and $ are line ends and . does not match a line break
HeaderLine(line, prefix, open, close) ==
    IF startsWith(line, prefix)
    THEN open \o SubSeq(line, Len(prefix) + 1, Len(line)) \o close
    ELSE line

HeaderRule(s, prefix, open, close) ==
    LET lines == SplitLines(s)
    IN  Join([k \in 1..Len(lines) |-> HeaderLine(lines[k], prefix, open, close)], "\n")

Headers(markdown) ==
    LET h3 == HeaderRule(markdown, "### ", "<h3 class=\"subsection-title\">", "</h3>")
        h2 == HeaderRule(h3, "## ", "<h2 class=\"section-title\">", "</h2>")
    IN  HeaderRule(h2, "# ", "<h1 class=\"chapter-title\">", "</h1>")

\* the end of the longest run of white space that starts at position i
SpaceRunEnd(s, i) ==
    LET j == First({n \in i..Len(s) : ~IsSpace(Char(s, n))})
    IN  IF j = 0 THEN Len(s) ELSE j - 1

\* the positions of the line breaks of s within i..j
BreaksIn(s, i, j) == {k \in i..j : Char(s, k) = "\n"}

\* /\n\s*\n/ at position i: 0 when there is no match, else the position of
\* the last character of the (greedy) match
BlankMatchEnd(s, i) ==
    IF i <= Len(s) /\ Char(s, i) = "\n"
    THEN LET later == BreaksIn(s, i + 1, SpaceRunEnd(s, i + 1))
         IN  IF later = {} THEN 0 ELSE Max(later)
    ELSE 0

\* html.split(/\n\s*\n/)
RECURSIVE SplitBlocksFrom(_, _)
SplitBlocksFrom(s, i) ==
    LET j == First({n \in i..Len(s) : BlankMatchEnd(s, n) > 0})
    IN  IF j = 0 THEN << SubSeq(s, i, Len(s)) >>
        ELSE << SubSeq(s, i, j - 1) >> \o SplitBlocksFrom(s, BlankMatchEnd(s, j) + 1)

SplitBlocks(s) == SplitBlocksFrom(s, 1)

\* block.replace(/^>\s*/gm, '')
RECURSIVE StripQuoteFrom(_, _)
StripQuoteFrom(s, i) ==
    LET j == First({n \in i..Len(s) :
                       Char(s, n) = ">" /\ (n = 1 \/ Char(s, n - 1) = "\n")})
    IN  IF j = 0 THEN SubSeq(s, i, Len(s))
        ELSE SubSeq(s, i, j - 1) \o StripQuoteFrom(s, SpaceRunEnd(s, j + 1) + 1)

StripQuote(s) == StripQuoteFrom(s, 1)

IsDigit(c) == c \in CharsOf(DigitChars)

DigitRunEnd(s, i) ==
    LET j == First({n \in i..Len(s) : ~IsDigit(Char(s, n))})
    IN  IF j = 0 THEN Len(s) ELSE j - 1

\* line.match(/^[\*\-\+]\s(.+)/): the length of the marker, 0 when no match
BulletMarker(line) ==
    IF Len(line) >= 3 /\ Char(line, 1) \in {"*", "-", "+"} /\ IsSpace(Char(line, 2))
    THEN 2 ELSE 0

\* line.match(/^\d+\.\s(.+)/): the length of the marker, 0 when no match
NumberMarker(line) ==
    LET d == DigitRunEnd(line, 1)
    IN  IF d >= 1 /\ Len(line) >= d + 3 /\ Char(line, d + 1) = "."
           /\ IsSpace(Char(line, d + 2))
        THEN d + 2 ELSE 0

\* /^[\*\-\+]\s/.test(block)
IsBulletBlock(block) ==
    Len(block) >= 2 /\ Char(block, 1) \in {"*", "-", "+"} /\ IsSpace(Char(block, 2))

\* /^\d+\.\s/.test(block)
IsNumberBlock(block) ==
    LET d == DigitRunEnd(block, 1)
    IN  d >= 1 /\ Len(block) >= d + 2 /\ Char(block, d + 1) = "."
        /\ IsSpace(Char(block, d + 2))

\* block.split('\n').map(line => match ? `<li>${match[1]}</li>` : '')
\*      .filter(Boolean).join('')
RECURSIVE ListItems(_, _, _)
ListItems(lines, k, numbered) ==
    IF k > Len(lines) THEN ""
    ELSE LET m == IF numbered THEN NumberMarker(lines[k]) ELSE BulletMarker(lines[k])
         IN  (IF m > 0
              THEN "<li>" \o SubSeq(lines[k], m + 1, Len(lines[k])) \o "</li>"
              ELSE "") \o ListItems(lines, k + 1, numbered)

Blockquote(block) ==
    "<blockquote class=\"story-callout\">"
        \o ReplaceAll(StripQuote(block), "\n", "<br>") \o "</blockquote>"

\* a faulty variant: the list tests come first and look past the quote marker
processBlock_ListFirst(rawBlock) ==
    LET block == trim(rawBlock)
        inner == StripQuote(block)
    IN  IF block = "" THEN ""
        ELSE IF startsWith(block, "<h") THEN block
        ELSE IF IsBulletBlock(inner)
        THEN "<ul class=\"bullet-list\">"
                 \o ListItems(SplitLines(inner), 1, FALSE) \o "</ul>"
        ELSE IF IsNumberBlock(inner)
        THEN "<ol class=\"numbered-list\">"
                 \o ListItems(SplitLines(inner), 1, TRUE) \o "</ol>"
        ELSE IF startsWith(block, ">") THEN Blockquote(block)
        ELSE "<p class=\"story-text\">" \o ReplaceAll(block, "\n", "<br>") \o "</p>"

\* the body of blocks.map(...): the first test that holds decides
processBlock(rawBlock) ==
    LET block == trim(rawBlock)
    IN  IF block = "" THEN ""
        ELSE IF startsWith(block, "<h") THEN block
        ELSE IF startsWith(block, ">") THEN Blockquote(block)
        ELSE IF IsBulletBlock(block)
        THEN "<ul class=\"bullet-list\">"
                 \o ListItems(SplitLines(block), 1, FALSE) \o "</ul>"
        ELSE IF IsNumberBlock(block)
        THEN "<ol class=\"numbered-list\">"
                 \o ListItems(SplitLines(block), 1, TRUE) \o "</ol>"
        ELSE "<p class=\"story-text\">" \o ReplaceAll(block, "\n", "<br>") \o "</p>"

\* /D(.*?)D/ at position i: 0 when there is no match, else the position of
\* the closing delimiter (the nearest one on the same line)
SpanClose(s, d, i) ==
    IF OccursAt(s, d, i)
    THEN LET ends == {j \in (i + Len(d))..Len(s) :
                        /\ OccursAt(s, d, j)
                        /\ BreaksIn(s, i + Len(d), j - 1) = {}}
         IN  IF ends = {} THEN 0 ELSE Min(ends)
    ELSE 0

\* s.replace(/D(.*?)D/g, OPEN$1CLOSE)
RECURSIVE InlineFrom(_, _, _, _, _)
InlineFrom(s, d, open, close, i) ==
    LET j == First({n \in i..Len(s) : SpanClose(s, d, n) > 0})
    IN  IF j = 0 THEN SubSeq(s, i, Len(s))
        ELSE LET e == SpanClose(s, d, j)
             IN  SubSeq(s, i, j - 1) \o open \o SubSeq(s, j + Len(d), e - 1) \o close
                     \o InlineFrom(s, d, open, close, e + Len(d))

Inline(s, d, open, close) == InlineFrom(s, d, open, close, 1)

\* /\n\s*\n\s*\n/ at position i: 0 when there is no match, else the position
\* of the last character of the (greedy) match
TripleMatchEnd(s, i) ==
    IF i <= Len(s) /\ Char(s, i) = "\n"
    THEN LET later == BreaksIn(s, i + 1, SpaceRunEnd(s, i + 1))
         IN  IF Cardinality(later) < 2 THEN 0 ELSE Max(later)
    ELSE 0

\* s.replace(/\n\s*\n\s*\n/g, '\n\n')
RECURSIVE CollapseFrom(_, _)
CollapseFrom(s, i) ==
    LET j == First({n \in i..Len(s) : TripleMatchEnd(s, n) > 0})
    IN  IF j = 0 THEN SubSeq(s, i, Len(s))
        ELSE SubSeq(s, i, j - 1) \o "\n\n" \o CollapseFrom(s, TripleMatchEnd(s, j) + 1)

\* the grave accent of the code-span rule: the module's lexical syntax has no
\* such character inside a string, so "~" stands for it and the modelled
\* texts use "~" for nothing else
Backtick == "~"

markdownToHTMLManual(markdown) ==
    LET blocks    == SplitBlocks(Headers(markdown))
        processed == [k \in 1..Len(blocks) |-> processBlock(blocks[k])]
        joined    == Join(processed, "\n\n")
        bold      == Inline(joined, "**", "<strong>", "</strong>")
        star      == Inline(bold, "*", "<em>", "</em>")
        under     == Inline(star, "_", "<em>", "</em>")
        code      == Inline(under, Backtick, "<code>", "</code>")
    IN  CollapseFrom(code, 1)

\* marked.parse(manual): every non-empty block of markdownToHTMLManual's
\* output opens with a block-level tag (h1..h3, blockquote, ul, ol, p), which
\* the library, as CommonMark has it, treats as an HTML block and hands on
\* verbatim up to the next blank line
markedParse(manual) == manual

markdownToHTML(markdown) ==
    addStoryClasses(markedParse(markdownToHTMLManual(markdown)))

(***************************************************************************)
(* Story metadata and the values of a request                              *)
(***************************************************************************)
STORY_METADATA ==
    [island |-> [title |-> "The Island of Almosts", originalName |-> "Sam",
                 originalPronoun |-> "he"]]

StoryKey == DOMAIN STORY_METADATA

\* the truthiness of STORY_METADATA[storyKey] (see ObjectPrototypeKeys)
StoryLookupTruthy(storyKey) ==
    storyKey \in StoryKey \/ storyKey \in ObjectPrototypeKeys

\* url.searchParams.get(name): null when the parameter is absent
Null == [isNull |-> TRUE, str |-> ""]
Str(v) == [isNull |-> FALSE, str |-> v]

\* null and the empty string are the two falsy values of a parameter
Truthy(param) == ~param.isNull /\ param.str # ""

\* (customPronoun || 'he')
pronounKeyOf(customPronoun) ==
    IF Truthy(customPronoun) THEN customPronoun.str ELSE "he"

(***************************************************************************)
(* Bounds and the inputs drawn from them                                   *)
(***************************************************************************)
\* the story keys asked for: the known one, an unknown one, and a member of
\* Object.prototype
StoryKeysAsked == {"island", "ocean", "constructor"}

NamesAsked == {Null, Str(""), Str("Sam"), Str("Alex"), Str("Him")}

PronounsAsked ==
    {Null, Str(""), Str("he"), Str("she"), Str("they"), Str("xyz"),
     Str("constructor")}

\* what https://junothreadborne.me/books/<key>.md may hold
StoryTexts ==
    {"# Sam\n\nHe saw his hat.", "> - sam hid himself\n> - the end", "here he is"}

\* the outcome of the upstream fetch: a body, a response that is not ok, or
\* a rejected promise (a network error)
FetchOutcomes ==
    {[kind |-> "ok", text |-> t] : t \in StoryTexts}
        \cup {[kind |-> "notOk", text |-> ""], [kind |-> "throws", text |-> ""]}

Slugs == {"a"}
Targets == {"https://x.example"}
API_KEY == "k"

Methods == {"GET", "POST", "OPTIONS"}

Pathnames ==
    {"/in/to/" \o k : k \in StoryKeysAsked}
        \cup {"/to/" \o g : g \in Slugs \cup {"zz"}}
        \cup {"/to/api/all", "/shorten", "/other"}

\* the Authorization header, decoded: none, or a scheme with user:pass
NoAuth == [scheme |-> "", user |-> "", pass |-> ""]

AuthHeaders ==
    {NoAuth,
     [scheme |-> "Basic", user |-> "admin", pass |-> API_KEY],
     [scheme |-> "Basic", user |-> "admin", pass |-> "wrong"],
     [scheme |-> "Bearer", user |-> "admin", pass |-> API_KEY]}

\* the body of a POST: text that is no JSON, or a payload {slug, target, data}
\* whose data is absent or holds a url
BadJson == [json |-> FALSE, slug |-> "", target |-> "", dataUrl |-> ""]

Bodies ==
    {BadJson}
        \cup {[json |-> TRUE, slug |-> g, target |-> t, dataUrl |-> u] :
                 g \in Slugs \cup {""}, t \in Targets \cup {""},
                 u \in {"", "https://y.example"}}

(***************************************************************************)
(* State                                                                   *)
(***************************************************************************)
VARIABLES
    LINKS,               \* env.LINKS: slug -> the stored JSON object
    shortened,           \* slug -> the target of its last 200 of POST /shorten
    pc,                  \* where handleStoryCustomization stands
    req,                 \* storyKey, customName, customPronoun of that call
    fetchCount,          \* upstream fetches made for that call
    storyMarkdown,       \* the fetched source
    renderIn,            \* what markdownToHTML was given
    htmlBeforePronouns,  \* what markdownToHTML returned
    rewriteIn,           \* what rewritePronouns was given
    customizedHTML,
    bannerText,
    response,            \* the response last returned by the worker
    trace,               \* the stages that call has run, in order
    fin, fout, fstage    \* a function applied on its own: argument, value, progress

vars ==
    << LINKS, shortened, pc, req, fetchCount, storyMarkdown, renderIn,
       htmlBeforePronouns, rewriteIn, customizedHTML, bannerText, response,
       trace, fin, fout, fstage >>

callVars ==
    << req, fetchCount, storyMarkdown, renderIn, htmlBeforePronouns, rewriteIn,
       customizedHTML, bannerText, trace >>

fnVars == << fin, fout, fstage >>

workerVars ==
    << LINKS, shortened, pc, req, fetchCount, storyMarkdown, renderIn,
       htmlBeforePronouns, rewriteIn, customizedHTML, bannerText, response,
       trace >>

NoEntry == [present |-> FALSE, target |-> "", url |-> ""]

NoReq == [storyKey |-> "", customName |-> Null, customPronoun |-> Null]

Response(route, status) ==
    [route |-> route, status |-> status, body |-> "", location |-> "",
     slug |-> "", banner |-> "", html |-> "", listed |-> {}]

NoResponse == Response("none", 0)

WorkerInit ==
    /\ LINKS = [g \in Slugs |-> NoEntry]
    /\ shortened = [g \in Slugs |-> ""]
    /\ pc = "idle"
    /\ req = NoReq
    /\ fetchCount = 0
    /\ storyMarkdown = ""
    /\ renderIn = ""
    /\ htmlBeforePronouns = ""
    /\ rewriteIn = ""
    /\ customizedHTML = ""
    /\ bannerText = ""
    /\ response = NoResponse
    /\ trace = << >>

Init ==
    /\ WorkerInit
    /\ fin = ""
    /\ fout = ""
    /\ fstage = 0

\* the locals of a call of handleStoryCustomization, as a new call finds them
FreshCall(r) ==
    /\ req' = r
    /\ fetchCount' = 0
    /\ storyMarkdown' = ""
    /\ renderIn' = ""
    /\ htmlBeforePronouns' = ""
    /\ rewriteIn' = ""
    /\ customizedHTML' = ""
    /\ bannerText' = ""
    /\ trace' = << >>

(***************************************************************************)
(* The fetch handler: routing                                              *)
(***************************************************************************)
\* the first route of the handler whose test holds
Route(method, pathname) ==
    IF method = "OPTIONS" THEN "options"
    ELSE IF method = "GET" /\ pathname = "/to/api/all" THEN "list"
    ELSE IF startsWith(pathname, "/in/to/") THEN "story"
    ELSE IF method = "GET" /\ startsWith(pathname, "/to/") THEN "redirect"
    ELSE IF method = "POST" /\ pathname = "/shorten" THEN "shorten"
    ELSE "fallback"

\* s.split(sep) for a one-character sep
RECURSIVE SplitOnFrom(_, _, _)
SplitOnFrom(s, sep, i) ==
    LET j == First({n \in i..Len(s) : Char(s, n) = sep})
    IN  IF j = 0 THEN << SubSeq(s, i, Len(s)) >>
        ELSE << SubSeq(s, i, j - 1) >> \o SplitOnFrom(s, sep, j + 1)

\* pathname.split('/')[2] || ''
slugOf(pathname) ==
    LET parts == SplitOnFrom(pathname, "/", 1)
    IN  IF Len(parts) >= 3 THEN parts[3] ELSE ""

\* pathname.replace('/in/to/', ''): the first occurrence only
storyPathOf(pathname) ==
    LET j == First({n \in 1..Len(pathname) : OccursAt(pathname, "/in/to/", n)})
    IN  IF j = 0 THEN pathname
        ELSE SubSeq(pathname, 1, j - 1) \o SubSeq(pathname, j + 7, Len(pathname))

\* checkBasicAuth
checkBasicAuth(auth) ==
    /\ auth # NoAuth
    /\ auth.scheme = "Basic"
    /\ auth.user = "admin"
    /\ auth.pass = API_KEY

\* env.LINKS.get(slug): null for a key the store does not hold
kvGet(slug) == IF slug \in DOMAIN LINKS THEN LINKS[slug] ELSE NoEntry

(***************************************************************************)
(* The fetch handler: the link shortener                                   *)
(***************************************************************************)
\* CORS preflight
Options ==
    /\ pc = "idle"
    /\ \E method \in Methods, pathname \in Pathnames :
          Route(method, pathname) = "options"
    /\ response' = Response("options", 200)
    /\ FreshCall(NoReq)
    /\ UNCHANGED << LINKS, shortened, pc, fnVars >>

\* GET /to/api/all
ListAll ==
    /\ pc = "idle"
    /\ \E method \in Methods, pathname \in Pathnames :
          Route(method, pathname) = "list"
    /\ response' = [Response("list", 200) EXCEPT
                       !.listed = {g \in DOMAIN LINKS : LINKS[g].present}]
    /\ FreshCall(NoReq)
    /\ UNCHANGED << LINKS, shortened, pc, fnVars >>

\* GET /to/:slug
Redirect ==
    /\ pc = "idle"
    /\ \E method \in Methods, pathname \in Pathnames :
          /\ Route(method, pathname) = "redirect"
          /\ LET slug == slugOf(pathname)
                 data == kvGet(slug)
             IN  response' =
                     IF data.present /\ data.url # ""
                     THEN [Response("redirect", 302) EXCEPT
                              !.slug = slug, !.location = data.url]
                     ELSE [Response("redirect", 404) EXCEPT
                              !.slug = slug, !.body = "Thread not found."]
    /\ FreshCall(NoReq)
    /\ UNCHANGED << LINKS, shortened, pc, fnVars >>

\* POST /shorten: env.LINKS.put(slug, JSON.stringify({ target, ...data }))
Shorten ==
    /\ pc = "idle"
    /\ \E method \in Methods, pathname \in Pathnames,
          auth \in AuthHeaders, payload \in Bodies :
          /\ Route(method, pathname) = "shorten"
          /\ IF ~checkBasicAuth(auth)
             THEN /\ response' =
                         [Response("shorten", 401) EXCEPT !.body = "Unauthorized."]
                  /\ UNCHANGED << LINKS, shortened >>
             ELSE IF ~payload.json
             THEN /\ response' =
                         [Response("shorten", 400) EXCEPT !.body = "Invalid JSON body."]
                  /\ UNCHANGED << LINKS, shortened >>
             ELSE IF payload.slug = "" \/ payload.target = ""
             THEN /\ response' =
                         [Response("shorten", 400) EXCEPT
                             !.body = "Missing slug or target."]
                  /\ UNCHANGED << LINKS, shortened >>
             ELSE /\ LINKS' = [LINKS EXCEPT ![payload.slug] =
                                  [present |-> TRUE, target |-> payload.target,
                                   url |-> payload.dataUrl]]
                  /\ shortened' = [shortened EXCEPT ![payload.slug] = payload.target]
                  /\ response' =
                         [Response("shorten", 200) EXCEPT
                             !.slug = payload.slug,
                             !.body = "Shortened: https://thrd.me/to/" \o payload.slug]
    /\ FreshCall(NoReq)
    /\ UNCHANGED << pc, fnVars >>

Fallback ==
    /\ pc = "idle"
    /\ \E method \in Methods, pathname \in Pathnames :
          Route(method, pathname) = "fallback"
    /\ response' = [Response("fallback", 404) EXCEPT !.body = "Not Found."]
    /\ FreshCall(NoReq)
    /\ UNCHANGED << LINKS, shortened, pc, fnVars >>

(***************************************************************************)
(* handleStoryCustomization, one action for each stage                     *)
(***************************************************************************)
\* STORY_METADATA[storyKey] as the later stages read it: a member of
\* Object.prototype has no originalName and no originalPronoun
storyMetaOf(storyKey) ==
    IF storyKey \in StoryKey
    THEN [own |-> TRUE, originalName |-> STORY_METADATA[storyKey].originalName,
          originalPronoun |-> STORY_METADATA[storyKey].originalPronoun]
    ELSE [own |-> FALSE, originalName |-> "undefined",
          originalPronoun |-> "undefined"]

\* pronounKey !== storyMeta.originalPronoun
pronounDiffers(storyKey, pronounKey) ==
    ~storyMetaOf(storyKey).own \/ pronounKey # storyMetaOf(storyKey).originalPronoun

Return(status, body) ==
    /\ response' = [Response("story", status) EXCEPT !.body = body]
    /\ pc' = "idle"

\* the route /in/to/:story calls handleStoryCustomization
StartCustomization ==
    /\ pc = "idle"
    /\ \E method \in Methods, pathname \in Pathnames,
          n \in NamesAsked, p \in PronounsAsked :
          /\ Route(method, pathname) = "story"
          /\ FreshCall([storyKey |-> storyPathOf(pathname), customName |-> n,
                        customPronoun |-> p])
    /\ pc' = "validateStory"
    /\ response' = NoResponse
    /\ UNCHANGED << LINKS, shortened, fnVars >>

\* Validate story exists
ValidateStory ==
    /\ pc = "validateStory"
    /\ IF ~StoryLookupTruthy(req.storyKey)
       THEN /\ Return(404, "Story not found")
            /\ trace' = trace \o << "validateStory", "return" >>
       ELSE /\ pc' = "validatePronoun"
            /\ trace' = Append(trace, "validateStory")
            /\ UNCHANGED response
    /\ UNCHANGED << LINKS, shortened, req, fetchCount, storyMarkdown, renderIn,
                    htmlBeforePronouns, rewriteIn, customizedHTML, bannerText,
                    fnVars >>

\* Validate pronoun
ValidatePronoun ==
    /\ pc = "validatePronoun"
    /\ IF ~PronounLookupTruthy(pronounKeyOf(req.customPronoun))
       THEN /\ Return(400, "Invalid pronoun. Use: he, she, or they")
            /\ trace' = trace \o << "validatePronoun", "return" >>
       ELSE /\ pc' = "fetch"
            /\ trace' = Append(trace, "validatePronoun")
            /\ UNCHANGED response
    /\ UNCHANGED << LINKS, shortened, req, fetchCount, storyMarkdown, renderIn,
                    htmlBeforePronouns, rewriteIn, customizedHTML, bannerText,
                    fnVars >>

\* a faulty variant: a response that is not ok is fetched once more before the 503
FetchStory_Retry ==
    /\ pc = "fetch"
    /\ fetchCount' = fetchCount + 1
    /\ \E o \in FetchOutcomes :
          IF o.kind = "throws"
          THEN /\ Return(500, "Internal Server Error")
               /\ trace' = trace \o << "fetch", "return" >>
               /\ UNCHANGED storyMarkdown
          ELSE IF o.kind = "notOk" /\ fetchCount = 0
          THEN /\ trace' = trace
               /\ UNCHANGED << storyMarkdown, pc, response >>
          ELSE IF o.kind = "notOk"
          THEN /\ Return(503, "Story content not available")
               /\ trace' = trace \o << "fetch", "return" >>
               /\ UNCHANGED storyMarkdown
          ELSE /\ storyMarkdown' = o.text
               /\ pc' = "render"
               /\ trace' = Append(trace, "fetch")
               /\ UNCHANGED response
    /\ UNCHANGED << LINKS, shortened, req, renderIn, htmlBeforePronouns,
                    rewriteIn, customizedHTML, bannerText, fnVars >>

\* Fetch story content from static assets: one awaited fetch; a rejected
\* promise lands in the catch clause
FetchStory ==
    /\ pc = "fetch"
    /\ fetchCount' = fetchCount + 1
    /\ \E o \in FetchOutcomes :
          IF o.kind = "throws"
          THEN /\ Return(500, "Internal Server Error")
               /\ trace' = trace \o << "fetch", "return" >>
               /\ UNCHANGED storyMarkdown
          ELSE IF o.kind = "notOk"
          THEN /\ Return(503, "Story content not available")
               /\ trace' = trace \o << "fetch", "return" >>
               /\ UNCHANGED storyMarkdown
          ELSE /\ storyMarkdown' = o.text
               /\ pc' = "render"
               /\ trace' = Append(trace, "fetch")
               /\ UNCHANGED response
    /\ UNCHANGED << LINKS, shortened, req, renderIn, htmlBeforePronouns,
                    rewriteIn, customizedHTML, bannerText, fnVars >>

\* the argument of markdownToHTML
renderSource == storyMarkdown

\* const htmlBeforePronouns = markdownToHTML(storyMarkdown);
\* let customizedHTML = htmlBeforePronouns;
Render ==
    /\ pc = "render"
    /\ renderIn' = renderSource
    /\ htmlBeforePronouns' = markdownToHTML(renderSource)
    /\ customizedHTML' = htmlBeforePronouns'
    /\ pc' = "rewrite"
    /\ trace' = Append(trace, "render")
    /\ UNCHANGED << LINKS, shortened, req, fetchCount, storyMarkdown, rewriteIn,
                    bannerText, response, fnVars >>

\* a faulty variant: the rewriter is handed the fetched markdown, not the rendered HTML
rewriteSource_Raw == storyMarkdown

\* the first argument of rewritePronouns
rewriteSource == customizedHTML

\* the call of rewritePronouns that the handler makes, if it makes one;
\* with a storyMeta from Object.prototype originalName is undefined and
\* originalName.toLowerCase() throws
rewriteCall ==
    LET meta == storyMetaOf(req.storyKey)
        key  == pronounKeyOf(req.customPronoun)
    IN  IF Truthy(req.customName)
        THEN [made |-> TRUE,
              result |-> IF meta.own
                         THEN rewritePronouns(rewriteSource, meta.originalName,
                                              req.customName.str, key)
                         ELSE [threw |-> TRUE, str |-> ""]]
        ELSE IF pronounDiffers(req.storyKey, key)
        THEN [made |-> TRUE,
              result |-> IF meta.own
                         THEN rewritePronouns(rewriteSource, meta.originalName,
                                              meta.originalName, key)
                         ELSE [threw |-> TRUE, str |-> ""]]
        ELSE [made |-> FALSE, result |-> [threw |-> FALSE, str |-> customizedHTML]]

Rewrite ==
    /\ pc = "rewrite"
    /\ LET call == rewriteCall
       IN  IF call.made /\ call.result.threw
           THEN /\ Return(500, "Internal Server Error")
                /\ rewriteIn' = rewriteSource
                /\ trace' = trace \o << "rewrite", "return" >>
                /\ UNCHANGED customizedHTML
           ELSE /\ customizedHTML' = call.result.str
                /\ rewriteIn' = IF call.made THEN rewriteSource ELSE rewriteIn
                /\ trace' = IF call.made THEN Append(trace, "rewrite") ELSE trace
                /\ pc' = "respond"
                /\ UNCHANGED response
    /\ UNCHANGED << LINKS, shortened, req, fetchCount, storyMarkdown, renderIn,
                    htmlBeforePronouns, bannerText, fnVars >>

\* Create customization banner (the leading sparkle of the text is left out)
bannerTextOf(storyKey, customName, pronounKey) ==
    IF Truthy(customName) /\ pronounDiffers(storyKey, pronounKey)
    THEN "Customized for " \o customName.str \o " (" \o pronounKey \o "/"
             \o NewForm(pronounKey, "object").str \o ")"
    ELSE IF Truthy(customName)
    THEN "Customized for " \o customName.str
    ELSE IF pronounDiffers(storyKey, pronounKey)
    THEN "Using " \o pronounKey \o "/" \o NewForm(pronounKey, "object").str
             \o " pronouns"
    ELSE ""

\* const banner = bannerText ? `<div class="customization-banner">...` : ''
bannerOf(text) ==
    IF text # "" THEN "<div class=\"customization-banner\">" \o text \o "</div>"
    ELSE ""

\* the banner, the full HTML and the 200 response
Respond ==
    /\ pc = "respond"
    /\ bannerText' = bannerTextOf(req.storyKey, req.customName,
                                  pronounKeyOf(req.customPronoun))
    /\ response' = [Response("story", 200) EXCEPT
                       !.banner = bannerOf(bannerText'), !.html = customizedHTML]
    /\ pc' = "idle"
    /\ trace' = Append(trace, "return")
    /\ UNCHANGED << LINKS, shortened, req, fetchCount, storyMarkdown, renderIn,
                    htmlBeforePronouns, rewriteIn, customizedHTML, fnVars >>

Next ==
    \/ Options
    \/ ListAll
    \/ Redirect
    \/ Shorten
    \/ Fallback
    \/ StartCustomization
    \/ ValidateStory
    \/ ValidatePronoun
    \/ FetchStory
    \/ Render
    \/ Rewrite
    \/ Respond

Spec == Init /\ [][Next]_vars

(***************************************************************************)
(* Properties of the customization call and of the shortener               *)
(***************************************************************************)
\* a call of handleStoryCustomization has returned
StoryDone == pc = "idle" /\ response.route = "story"

StorySucceeded == StoryDone /\ response.status = 200

\* the position of a stage in the trace of the call, 0 when it did not run
StageAt(stage) ==
    IF \E k \in 1..Len(trace) : trace[k] = stage
    THEN CHOOSE k \in 1..Len(trace) : trace[k] = stage
    ELSE 0

Ran(stage) == StageAt(stage) > 0

StageCount(stage) == Cardinality({k \in 1..Len(trace) : trace[k] = stage})

NameUnchanged ==
    \/ ~Truthy(req.customName)
    \/ /\ req.storyKey \in StoryKey
       /\ req.customName.str = STORY_METADATA[req.storyKey].originalName

PronounUnchanged ==
    \/ ~Truthy(req.customPronoun)
    \/ /\ req.storyKey \in StoryKey
       /\ req.customPronoun.str = STORY_METADATA[req.storyKey].originalPronoun

\* C1: in every successful customization call whose target name is absent or
\* the document's original name, and whose target pronoun family is absent or
\* the document's original family, the banner is empty.
C1_BannerOnlyIfChanged ==
    (StorySucceeded /\ NameUnchanged /\ PronounUnchanged) => response.banner = ""

\* C3: for a known document key and a non-empty pronoun parameter that is
\* none of he, she, they, the call returns 400 (InvalidPronounFamily) and no
\* other outcome.
C3_InvalidPronounRejected ==
    (/\ StoryDone
     /\ req.storyKey \in StoryKey
     /\ Truthy(req.customPronoun)
     /\ req.customPronoun.str \notin {"he", "she", "they"})
        => response.status = 400

StageRank(stage) ==
    CASE stage = "validateStory"   -> 1
      [] stage = "validatePronoun" -> 2
      [] stage = "fetch"           -> 3
      [] stage = "render"          -> 4
      [] stage = "rewrite"         -> 5
      [] stage = "return"          -> 6

\* C9: every call ends in one outcome among 200, 404, 400, 503 and 500, returned
\* once and last; the stages run in the order story check, pronoun check,
\* fetch, render, rewrite; the source is fetched at most once, and not at all
\* on a 404 or 400; nothing is rendered or rewritten after a failed fetch.
C9_TerminalOutcomes ==
    /\ fetchCount <= 1
    /\ StageCount("fetch") = fetchCount
    /\ \A j, k \in 1..Len(trace) : j < k => StageRank(trace[j]) < StageRank(trace[k])
    /\ pc # "idle" => (~Ran("return") /\ response = NoResponse)
    /\ StoryDone =>
          /\ response.status \in {200, 404, 400, 503, 500}
          /\ StageCount("return") = 1
          /\ trace[1] = "validateStory"
          /\ response.status = 404 => trace = << "validateStory", "return" >>
          /\ response.status = 400 =>
                trace = << "validateStory", "validatePronoun", "return" >>
          /\ response.status \in {404, 400} => fetchCount = 0
          /\ response.status = 503 =>
                trace = << "validateStory", "validatePronoun", "fetch", "return" >>
          /\ response.status = 200 => (fetchCount = 1 /\ Ran("render"))

\* a call that ended in 503 after its one fetch
C9_Witness ==
    StoryDone /\ response.status = 503 /\ fetchCount = 1 /\ ~Ran("render")

\* C10: once POST /shorten has answered 200 for slug s and target t, and s was
\* not written again, GET /to/s answers with a 302 redirect to t.
C10_ShortenThenRedirect ==
    (/\ response.route = "redirect"
     /\ response.slug \in Slugs
     /\ shortened[response.slug] # "")
        => (response.status = 302 /\ response.location = shortened[response.slug])

(***************************************************************************)
(* rewritePronouns applied on its own                                     *)
(***************************************************************************)
MaxWords == 3

\* the pieces the texts are put together from: pronoun forms, the name in
\* both cases, letters that make a form part of a longer word (t+he, s+he,
\* t+his, he+s) and a space
RewriteWords == {"he", "He", "him", "his", "t", "s", " ", "Sam", "sam"}

RECURSIVE TextsUpTo(_, _)
TextsUpTo(words, n) ==
    IF n = 0 THEN {""}
    ELSE LET shorter == TextsUpTo(words, n - 1)
         IN  shorter \cup {t \o w : t \in shorter, w \in words}

RewriteSentences ==
    {"He opened the door. he smiled.", "Himself, the she here this himself.",
     "HIS hat; His_hat, himself_ Him"}

RewriteInputs ==
    [text : TextsUpTo(RewriteWords, MaxWords) \cup RewriteSentences,
     targetName : {"Alex", "Him"},
     pronounKey : {"he", "she", "they"}]

InitRewrite ==
    /\ WorkerInit
    /\ fin \in RewriteInputs
    /\ fout = [threw |-> FALSE, str |-> ""]
    /\ fstage = 0

\* rewritePronouns(text, 'Sam', targetName, pronounKey)
ApplyRewrite ==
    /\ fstage = 0
    /\ fout' = rewritePronouns(fin.text, STORY_METADATA["island"].originalName,
                               fin.targetName, fin.pronounKey)
    /\ fstage' = 1
    /\ UNCHANGED << fin, workerVars >>

NextRewrite == ApplyRewrite

SpecRewrite == InitRewrite /\ [][NextRewrite]_vars

\* a text cut into its words (the longest runs of word characters) and the
\* runs between them
RunEnd(s, i) ==
    LET j == First({n \in i..Len(s) :
                       IsWordChar(Char(s, n)) # IsWordChar(Char(s, i))})
    IN  IF j = 0 THEN Len(s) ELSE j - 1

RECURSIVE RunsFrom(_, _)
RunsFrom(s, i) ==
    IF i > Len(s) THEN << >>
    ELSE << SubSeq(s, i, RunEnd(s, i)) >> \o RunsFrom(s, RunEnd(s, i) + 1)

Runs(s) == RunsFrom(s, 1)

HeForms == {"he", "him", "his", "himself"}

\* the form of the target family that stands for a he-family form
TargetForm(heForm, pronounKey) ==
    CASE heForm = "he"      -> PRONOUNS[pronounKey].subject
      [] heForm = "him"     -> PRONOUNS[pronounKey].object
      [] heForm = "his"     -> PRONOUNS[pronounKey].possessiveAdj
      [] heForm = "himself" -> PRONOUNS[pronounKey].reflexive

\* a word as the pronoun rules leave it: a he-family form, in any case,
\* becomes the target form, capitalised when its first letter was upper case
AsPronoun(word, pronounKey) ==
    IF toLowerCase(word) \in HeForms
    THEN IF Char(word, 1) \in UpperSet
         THEN capitalize(TargetForm(toLowerCase(word), pronounKey))
         ELSE TargetForm(toLowerCase(word), pronounKey)
    ELSE word

\* C5: every whole-word occurrence of a he-family form, matched in any case,
\* comes out as the target form: with its first letter capitalised when the
\* first letter of the match was upper case, in lower case otherwise; and
\* "He opened the door. he smiled." comes out for she as
\* "She opened the door. she smiled.".
C5_CasePreserved ==
    fstage = 1 =>
        /\ ~fout.threw
        /\ LET before == Runs(fin.text)
               after  == Runs(fout.str)
           IN  /\ Len(after) = Len(before)
               /\ \A k \in 1..Len(before) :
                     toLowerCase(before[k]) \in HeForms =>
                         after[k] = AsPronoun(before[k], fin.pronounKey)
        /\ (fin.text = "He opened the door. he smiled." /\ fin.pronounKey = "she")
              => fout.str = "She opened the door. she smiled."

C5_Witness ==
    /\ fstage = 1
    /\ fin.text = "He opened the door. he smiled."
    /\ fin.pronounKey = "she"
    /\ fout.str = "She opened the door. she smiled."

\* C6: a pronoun form is replaced only where it is a whole word: a word that
\* is neither a he-family form nor the name comes out unaltered, whatever
\* forms its letters spell (the, here, she, this), the text between the words
\* comes out unaltered, and himself comes out as the reflexive form, not as
\* the object form followed by "self".
C6_WholeWordsOnly ==
    fstage = 1 =>
        LET before == Runs(fin.text)
            after  == Runs(fout.str)
        IN  /\ Len(after) = Len(before)
            /\ \A k \in 1..Len(before) :
                  /\ (/\ toLowerCase(before[k]) \notin HeForms
                      /\ toLowerCase(before[k]) # "sam")
                         => after[k] = before[k]
                  /\ toLowerCase(before[k]) = "himself" =>
                         toLowerCase(after[k]) = PRONOUNS[fin.pronounKey].reflexive

C6_Witness ==
    /\ fstage = 1
    /\ fin.text = "Himself, the she here this himself."
    /\ fin.pronounKey = "they"
    /\ fout.str = "Themselves, the she here this themselves."

\* C8: the rules run in the order name, lower-case name, subject, object,
\* possessive adjective, possessive, reflexive, each on the result of the ones
\* before it: a name that a name rule has written is rewritten again by the
\* pronoun rule whose form it spells, and "his" is taken by the possessive
\* adjective rule before the possessive rule sees it.
C8_SequentialCumulative ==
    fstage = 1 =>
        LET before == Runs(fin.text)
            after  == Runs(fout.str)
        IN  /\ Len(after) = Len(before)
            /\ \A k \in 1..Len(before) :
                  /\ before[k] = "Sam" =>
                         after[k] = AsPronoun(fin.targetName, fin.pronounKey)
                  /\ before[k] = "sam" =>
                         after[k] = AsPronoun(toLowerCase(fin.targetName),
                                              fin.pronounKey)
                  /\ toLowerCase(before[k]) = "his" =>
                         toLowerCase(after[k]) = PRONOUNS[fin.pronounKey].possessiveAdj

\* the name Sam was replaced by Him, which the object rule then made Her
C8_Witness ==
    /\ fstage = 1
    /\ fin.text = "Sam his"
    /\ fin.targetName = "Him"
    /\ fin.pronounKey = "she"
    /\ fout.str = "Her her"

(***************************************************************************)
(* addStoryClasses applied on its own                                     *)
(***************************************************************************)
MaxFragments == 2

\* pieces of the HTML that marked hands to addStoryClasses
HtmlFragments ==
    {"<h1>", "<h2>", "<h3>", "<p>", "<ul>", "<ol>", "<blockquote>", "<img ",
     "src=\"a.png\">", "text", "</p>"}

InitClasses ==
    /\ WorkerInit
    /\ fin \in TextsUpTo(HtmlFragments, MaxFragments)
    /\ fout = [once |-> "", twice |-> ""]
    /\ fstage = 0

\* addStoryClasses(x)
InjectClasses ==
    /\ fstage = 0
    /\ fout' = [once |-> addStoryClasses(fin), twice |-> ""]
    /\ fstage' = 1
    /\ UNCHANGED << fin, workerVars >>

\* addStoryClasses(addStoryClasses(x))
InjectClassesAgain ==
    /\ fstage = 1
    /\ fout' = [fout EXCEPT !.twice = addStoryClasses(fout.once)]
    /\ fstage' = 2
    /\ UNCHANGED << fin, workerVars >>

NextClasses == InjectClasses \/ InjectClassesAgain

SpecClasses == InitClasses /\ [][NextClasses]_vars

\* C2: for every HTML text built from the tags h1, h2, h3, p, ul, ol,
\* blockquote and img, a second pass of addStoryClasses leaves the result of
\* the first unchanged, and no tag carries its class attribute twice.
C2_ClassInjectionIdempotent ==
    fstage = 2 =>
        /\ fout.twice = fout.once
        /\ ~Contains(fout.twice, "class=\"story-image\" class=\"story-image\"")

(***************************************************************************)
(* markdownToHTMLManual applied on its own                                *)
(***************************************************************************)
MaxLines == 3

\* the lines the markdown texts are put together from; the empty line makes
\* the blank lines that part the blocks
MarkdownLines ==
    {"> - a", "> 1. b", "> + *c*", "- a", "1. b", "# T", "x", ""}

RECURSIVE LinesUpTo(_)
LinesUpTo(n) ==
    IF n = 1 THEN MarkdownLines
    ELSE LET shorter == LinesUpTo(n - 1)
         IN  shorter \cup {t \o "\n" \o l : t \in shorter, l \in MarkdownLines}

InitRender ==
    /\ WorkerInit
    /\ fin \in LinesUpTo(MaxLines)
    /\ fout = [blocks |-> << >>, processed |-> << >>, html |-> ""]
    /\ fstage = 0

\* markdownToHTMLManual(markdown), with the blocks and processedBlocks of the
\* call kept beside its value
ApplyRender ==
    /\ fstage = 0
    /\ LET blocks == SplitBlocks(Headers(fin))
       IN  fout' = [blocks    |-> blocks,
                    processed |-> [k \in 1..Len(blocks) |-> processBlock(blocks[k])],
                    html      |-> markdownToHTMLManual(fin)]
    /\ fstage' = 1
    /\ UNCHANGED << fin, workerVars >>

NextRender == ApplyRender

SpecRender == InitRender /\ [][NextRender]_vars

\* every line of the block begins with ">"
AllLinesQuoted(block) ==
    /\ block # ""
    /\ \A k \in 1..Len(SplitLines(block)) : startsWith(SplitLines(block)[k], ">")

\* some line of the block, past its ">", begins like a list item
LooksLikeList(block) ==
    \E k \in 1..Len(SplitLines(block)) :
        LET inner == StripQuote(SplitLines(block)[k])
        IN  BulletMarker(inner) > 0 \/ NumberMarker(inner) > 0

IsBlockquote(html) ==
    /\ startsWith(html, "<blockquote class=\"story-callout\">")
    /\ OccursAt(html, "</blockquote>", Len(html) - 12)
    /\ ~Contains(html, "<ul")
    /\ ~Contains(html, "<ol")
    /\ ~Contains(html, "<li>")

\* C7: a block is classified by the first rule that matches, in the order
\* heading, blockquote, unordered list, ordered list, paragraph: a block
\* whose every line begins with ">" comes out as a blockquote with the callout
\* class and never as a list, also when its lines look like list items; a
\* block that opens with a list marker comes out as that list, and any other
\* block as a paragraph.
C7_BlockquoteBeforeLists ==
    fstage = 1 =>
        /\ \A k \in 1..Len(fout.blocks) :
              LET block == trim(fout.blocks[k])
                  out   == fout.processed[k]
              IN  /\ AllLinesQuoted(block) => IsBlockquote(out)
                  /\ startsWith(block, "<h") => out = block
                  /\ (startsWith(block, "- ") \/ startsWith(block, "+ "))
                         => startsWith(out, "<ul class=\"bullet-list\">")
                  /\ startsWith(block, "1. ")
                         => startsWith(out, "<ol class=\"numbered-list\">")
                  /\ startsWith(block, "x")
                         => startsWith(out, "<p class=\"story-text\">")
        /\ AllLinesQuoted(fin) => IsBlockquote(fout.html)

\* a block of quoted lines that look like list items, rendered as a blockquote
C7_Witness ==
    /\ fstage = 1
    /\ fin = "> - a\n> 1. b"
    /\ LooksLikeList(fin)
    /\ fout.html = "<blockquote class=\"story-callout\">- a<br>1. b</blockquote>"

=============================================================================
